---------------------------- MODULE Spec2Model ----------------------------
(***************************************************************************)
(* Password cracking cost calculator (src/app.py): the estimator core      *)
(* (calculate_entropy, estimate_guesses, estimate_cracking_time_and_cost,  *)
(* format_time) and the button handler of the page script that calls it.   *)
(*                                                                         *)
(* Numbers.  Python floats are modelled as exact scaled rationals          *)
(* n/d * 2^e * 5^f (n, d coprime and prime to 10) together with the IEEE   *)
(* specials inf and nan.  A finite result of magnitude >= 2^1024 becomes inf for *, /   *)
(* and + and raises OverflowError for **, as CPython does.  math.log2 is   *)
(* tabulated to 16 fractional bits and the mantissa of 2 ** x is           *)
(* interpolated linearly on 4 fractional bits of x; gradual underflow and  *)
(* rounding in the last place are not modelled.                            *)
(*                                                                         *)
(* Strings.  A password is kept run-length encoded: a sequence of runs     *)
(* <<c, k>>, the character c repeated k times, so that passwords of a few  *)
(* hundred characters are ordinary inputs.                                 *)
(***************************************************************************)
EXTENDS Integers, Sequences, FiniteSets, TLC

(***************************************************************************)
(* Bounds of the model.                                                    *)
(***************************************************************************)
MaxRuns == 2

(***************************************************************************)
(* Integer helpers.                                                        *)
(***************************************************************************)
Abs(x) == IF x < 0 THEN -x ELSE x

Min(x, y) == IF x < y THEN x ELSE y

RECURSIVE GCD(_, _)
GCD(a, b) == IF b = 0 THEN a ELSE GCD(b, a % b)

\* number of factors b in x > 0
RECURSIVE Factors(_, _)
Factors(b, x) == IF x % b # 0 THEN 0 ELSE 1 + Factors(b, x \div b)

\* floor(log2(x)) for x >= 1
RECURSIVE ILog2(_)
ILog2(x) == IF x < 2 THEN 0 ELSE 1 + ILog2(x \div 2)

\* largest integer the digit string of a formatted number is computed for
DigitCap == 2^30

(***************************************************************************)
(* Float values: n/d * 2^e * 5^f with n and d coprime and prime to 10.     *)
(***************************************************************************)
Raw(k, n, d, e, f) == [k |-> k, n |-> n, d |-> d, e |-> e, f |-> f]

Zero == Raw("fin", 0, 1, 0, 0)
NaN == Raw("nan", 0, 1, 0, 0)
Inf(s) == Raw("inf", s, 1, 0, 0)

IsFin(a) == a.k = "fin"
IsNaN(a) == a.k = "nan"
IsInf(a) == a.k = "inf"
Sign(a) == IF a.n > 0 THEN 1 ELSE IF a.n < 0 THEN -1 ELSE 0

\* integer bounds of f * log2(5)
F5Lo(f) == IF f >= 0 THEN (f * 23219) \div 10000 ELSE (f * 23220) \div 10000
F5Hi(f) == IF f >= 0 THEN -((-(f * 23220)) \div 10000)
           ELSE -((-(f * 23219)) \div 10000)

\* 2^LogLo < |n|/d * 2^e * 5^f < 2^LogHi
LogLo(n, d, e, f) == e + ILog2(Abs(n)) - ILog2(d) - 1 + F5Lo(f)
LogHi(n, d, e, f) == e + ILog2(Abs(n)) - ILog2(d) + 1 + F5Hi(f)

\* the powers of 5 multiplied out
Num5(n, f) == IF f > 0 THEN Abs(n) * 5^f ELSE Abs(n)
Den5(d, f) == IF f < 0 THEN d * 5^(-f) ELSE d

\* m/q >= 2^k
HugeExact(m, q, k) ==
  IF k <= 0
  THEN IF -k >= 31 THEN TRUE ELSE m >= (q + 2^(-k) - 1) \div 2^(-k)
  ELSE IF k >= 31 THEN FALSE ELSE m \div 2^k >= q

\* |n|/d * 2^e * 5^f >= 2^1024, the magnitude no double can hold
IsHuge(n, d, e, f) ==
  IF LogLo(n, d, e, f) >= 1024 THEN TRUE
  ELSE IF LogHi(n, d, e, f) <= 1024 THEN FALSE
  ELSE HugeExact(Num5(n, f), Den5(d, f), 1024 - e)

\* n/d * 2^e * 5^f in canonical form, or the infinity it overflows to
Pack(n, d, e, f) ==
  IF IsHuge(n, d, e, f) THEN Inf(IF n > 0 THEN 1 ELSE -1)
  ELSE Raw("fin", n, d, e, f)

\* the factors 2 (n2, d2) and 5 (n5, d5) of n and d moved to the exponents
Scale(n, d, n2, d2, n5, d5, e, f) ==
  Pack(n \div (2^n2 * 5^n5), d \div (2^d2 * 5^d5), e + n2 - d2, f + n5 - d5)

Reduce(n, d, g, e, f) ==
  Scale(n \div g, d \div g, Factors(2, Abs(n \div g)), Factors(2, d \div g),
        Factors(5, Abs(n \div g)), Factors(5, d \div g), e, f)

\* the double for n/d * 2^e * 5^f (d > 0)
Fin(n, d, e, f) == IF n = 0 THEN Zero ELSE Reduce(n, d, GCD(Abs(n), d), e, f)

FromInt(i) == Fin(i, 1, 0, 0)
One == Raw("fin", 1, 1, 0, 0)

\* a decimal literal i * 10^x
Dec(i, x) == Fin(i, 1, x, x)

MulFin(a, b, g1, g2) ==
  Fin((a.n \div g1) * (b.n \div g2), (a.d \div g2) * (b.d \div g1),
      a.e + b.e, a.f + b.f)

Mul(a, b) ==
  IF IsNaN(a) \/ IsNaN(b) THEN NaN
  ELSE IF IsInf(a) \/ IsInf(b)
       THEN IF Sign(a) = 0 \/ Sign(b) = 0 THEN NaN ELSE Inf(Sign(a) * Sign(b))
       ELSE IF a.n = 0 \/ b.n = 0 THEN Zero
       ELSE MulFin(a, b, GCD(Abs(a.n), b.d), GCD(Abs(b.n), a.d))

\* a / b for b finite and not zero (a zero divisor is the caller's raise)
Div(a, b) == Mul(a, Raw("fin", b.d * Sign(b), Abs(b.n), -b.e, -b.f))

AddFin(a, b, e0, f0, g) ==
  Fin(a.n * 2^(a.e - e0) * 5^(a.f - f0) * (b.d \div g)
        + b.n * 2^(b.e - e0) * 5^(b.f - f0) * (a.d \div g),
      (a.d \div g) * b.d, e0, f0)

Add(a, b) ==
  IF IsNaN(a) \/ IsNaN(b) THEN NaN
  ELSE IF IsInf(a) /\ IsInf(b) THEN (IF a.n = b.n THEN a ELSE NaN)
  ELSE IF IsInf(a) THEN a
  ELSE IF IsInf(b) THEN b
  ELSE IF a.n = 0 THEN b
  ELSE IF b.n = 0 THEN a
  ELSE AddFin(a, b, Min(a.e, b.e), Min(a.f, b.f), GCD(a.d, b.d))

\* floor(2^k * (q + r/d)), saturated at DigitCap
RECURSIVE FloorUp(_, _, _, _)
FloorUp(q, r, d, k) ==
  IF q >= DigitCap THEN DigitCap
  ELSE IF k = 0 THEN q
  ELSE IF 2 * r >= d THEN FloorUp(2 * q + 1, 2 * r - d, d, k - 1)
       ELSE FloorUp(2 * q, 2 * r, d, k - 1)

\* floor(m/q * 2^e), saturated at DigitCap
FloorExact(m, q, e) ==
  IF e >= 0 THEN FloorUp(m \div q, m % q, q, e)
  ELSE IF -e >= 31 THEN 0
  ELSE (m \div q) \div 2^(-e)

\* floor of a finite a >= 0, saturated at DigitCap
FloorCap(a) ==
  IF a.n = 0 \/ LogHi(a.n, a.d, a.e, a.f) <= 0 THEN 0
  ELSE IF LogLo(a.n, a.d, a.e, a.f) >= 30 THEN DigitCap
  ELSE FloorExact(Num5(a.n, a.f), Den5(a.d, a.f), a.e)

\* a < c for a small integer c >= 0, as the float comparison decides it
LessInt(a, c) ==
  IF IsNaN(a) THEN FALSE
  ELSE IF IsInf(a) THEN a.n < 0
  ELSE IF a.n < 0 THEN TRUE
  ELSE FloorCap(a) < c

\* a <= 0
LeqZero(a) == ~IsNaN(a) /\ a.n <= 0

\* a > 1
GreaterOne(a) ==
  IF IsNaN(a) THEN FALSE
  ELSE IF IsInf(a) THEN a.n > 0
  ELSE a.n > 0 /\ FloorCap(a) >= 1 /\ a # One

\* a >= 0 (false of nan)
NonNeg(a) == ~IsNaN(a) /\ a.n >= 0

(***************************************************************************)
(* Formatting with the format spec ".2f".                                  *)
(***************************************************************************)
\* c hundredths as digits
FmtCents(neg, c) ==
  neg \o ToString(c \div 100) \o "." \o ToString((c % 100) \div 10)
      \o ToString(c % 10)

\* t = floor(200 |a|): half-even rounding of 100 |a|
FmtHalves(neg, t, exact) ==
  IF t % 2 = 1 /\ (~exact \/ (t \div 2) % 2 = 1)
  THEN FmtCents(neg, t \div 2 + 1)
  ELSE FmtCents(neg, t \div 2)

\* x2 = 200 |a|
FmtAbs(neg, x2) ==
  IF IsInf(x2) \/ FloorCap(x2) >= DigitCap THEN neg \o "HUGE"
  ELSE FmtHalves(neg, FloorCap(x2),
                 x2.n = 0 \/ (x2.d = 1 /\ x2.e >= 0 /\ x2.f >= 0))

\* f"{a:.2f}": rounded half-even to hundredths; magnitudes whose integer
\* part exceeds DigitCap keep the marker "HUGE" in place of the digit string
Fmt2f(a) ==
  IF IsNaN(a) THEN "nan"
  ELSE IF IsInf(a) THEN (IF a.n > 0 THEN "inf" ELSE "-inf")
  ELSE FmtAbs(IF a.n < 0 THEN "-" ELSE "",
              Mul(Raw("fin", Abs(a.n), a.d, a.e, a.f), Raw("fin", 1, 1, 3, 2)))

(***************************************************************************)
(* Characters.  str.islower, str.isupper and str.isdigit follow Unicode:   *)
(* they hold of the ASCII ranges and of further code points, of which the  *)
(* model keeps representatives named by code point.                        *)
(***************************************************************************)
AsciiLower == {"a", "b", "c", "d", "e", "f", "g", "h", "i", "j", "k", "l", "m",
               "n", "o", "p", "q", "r", "s", "t", "u", "v", "w", "x", "y", "z"}
AsciiUpper == {"A", "B", "C", "D", "E", "F", "G", "H", "I", "J", "K", "L", "M",
               "N", "O", "P", "Q", "R", "S", "T", "U", "V", "W", "X", "Y", "Z"}
AsciiDigit == {"0", "1", "2", "3", "4", "5", "6", "7", "8", "9"}

\* e-acute; capital E-acute; Arabic-Indic digit three
OtherLower == {"U+00E9"}
OtherUpper == {"U+00C9"}
OtherDigit == {"U+0663"}

\* the string literal of line 33, character by character
SymbolString ==
  << "!", "@", "#", "$", "%", "^", "&", "*", "(", ")", "-", "_", "=", "+",
     "[", "{", "]", "}", ";", ":", "'", "\"", ",", "<", ".", ">", "/", "?",
     "\\", "|" >>
SymbolSet == {SymbolString[i] : i \in 1..Len(SymbolString)}

islower(c) == c \in AsciiLower \cup OtherLower
isupper(c) == c \in AsciiUpper \cup OtherUpper
isdigit(c) == c \in AsciiDigit \cup OtherDigit
issymbol(c) == c \in SymbolSet

(***************************************************************************)
(* Passwords, run-length encoded.                                          *)
(***************************************************************************)
RECURSIVE len(_)
len(password) ==
  IF password = << >> THEN 0 ELSE Head(password)[2] + len(Tail(password))

\* any(pred(c) for c in password)
any(pred(_), password) == \E i \in 1..Len(password) : pred(password[i][1])

IsEmpty(password) == len(password) = 0

(***************************************************************************)
(* calculate_entropy, lines 28-35.                                         *)
(***************************************************************************)
\* math.log2 on the alphabet sizes the function can form, 16 fractional bits
log2(x) ==
  LET q == CASE x = 10 -> 217706 [] x = 26 -> 308048 [] x = 32 -> 327680
             [] x = 36 -> 338816 [] x = 42 -> 353391 [] x = 52 -> 373584
             [] x = 58 -> 383909 [] x = 62 -> 390214 [] x = 68 -> 398948
             [] x = 84 -> 418927 [] x = 94 -> 429562
  IN  Fin(q, 1, -16, 0)

char_sets(password) ==
    (IF any(islower, password) THEN 26 ELSE 0)
  + (IF any(isupper, password) THEN 26 ELSE 0)
  + (IF any(isdigit, password) THEN 10 ELSE 0)
  + (IF any(issymbol, password) THEN 32 ELSE 0)

\* line 34
entropy_of(sets, length) ==
  IF sets > 0 THEN Mul(log2(sets), FromInt(length)) ELSE Zero

calculate_entropy(password) == entropy_of(char_sets(password), len(password))

(***************************************************************************)
(* estimate_guesses, lines 37-45.                                          *)
(***************************************************************************)
Ok(v) == [raised |-> "none", value |-> v]
Raise(x) == [raised |-> x, value |-> NaN]

\* 2^q * (1 + s/16), s the sixteenths of the exponent above q
Pow2At(q, x16) ==
  IF q >= 1024 THEN Raise("OverflowError")
  ELSE Ok(Fin(16 + (x16 - 16 * q), 16, q, 0))

\* 2 ** x for a finite x >= 0; CPython raises OverflowError at 2^1024
Pow2(x) == Pow2At(FloorCap(x), FloorCap(Mul(x, Raw("fin", 1, 1, 4, 0))))

\* max(1, v)
Max1(v) == IF GreaterOne(v) THEN v ELSE One

\* line 39, given the power
half_keyspace(p) ==
  IF p.raised # "none" THEN p ELSE Ok(Max1(Div(p.value, FromInt(2))))

\* slip: the dictionary branch searches the keyspace like the fallback
estimate_guesses_keyspace(entropy, method) ==
  IF method = "Brute Force" THEN half_keyspace(Pow2(entropy))
  ELSE IF method = "Hybrid Attack" THEN Ok(Dec(1, 10))
  ELSE Pow2(entropy)

estimate_guesses(entropy, method) ==
  IF method = "Brute Force" THEN half_keyspace(Pow2(entropy))
  ELSE IF method = "Dictionary Attack" THEN Ok(Dec(1, 8))
  ELSE IF method = "Hybrid Attack" THEN Ok(Dec(1, 10))
  ELSE Pow2(entropy)

(***************************************************************************)
(* Hardware options and the electricity rate, lines 8-25.                  *)
(***************************************************************************)
HW(s, p, c) == [speed_hps |-> s, power_watts |-> p, cost_per_hour |-> c]

gpu_options ==
     "NVIDIA GTX 1080 Ti" :> HW(Dec(1, 9), FromInt(250), Dec(5, -1))
  @@ "NVIDIA RTX 3090" :> HW(Dec(35, 8), FromInt(350), FromInt(1))
  @@ "AMD RX 6900 XT" :> HW(Dec(3, 9), FromInt(300), Dec(8, -1))

asic_options ==
     "AntMiner S19" :> HW(Dec(1, 10), FromInt(1500), FromInt(3))
  @@ "WhatsMiner M30S++" :> HW(Dec(112, 8), FromInt(3472), FromInt(4))

cloud_vm_options ==
     "AWS p3.2xlarge" :> HW(Dec(5, 8), Zero, FromInt(5))
  @@ "Azure NC6" :> HW(Dec(6, 8), Zero, FromInt(6))
  @@ "Google Cloud A100" :> HW(Dec(7, 8), Zero, FromInt(7))

electricity_cost_per_kwh == Dec(1, -1)

(***************************************************************************)
(* estimate_cracking_time_and_cost, lines 47-68.                           *)
(***************************************************************************)
\* slip: "< 0" for "<= 0"
hashes_per_second_strict(hardware_details) ==
  IF ~IsNaN(hardware_details.speed_hps) /\ hardware_details.speed_hps.n < 0
  THEN One
  ELSE hardware_details.speed_hps

\* lines 51-53: the rate the division uses
hashes_per_second(hardware_details) ==
  IF LeqZero(hardware_details.speed_hps) THEN One
  ELSE hardware_details.speed_hps

\* the caller's mapping as the call leaves it: line 53 assigns the local only
details_after(hardware_details) == hardware_details

\* line 63
energy_charge(energy_kwh) ==
  [energy_kwh |-> energy_kwh,
   energy_cost |-> Mul(energy_kwh, electricity_cost_per_kwh)]

\* slip: the electricity is charged whatever the hardware
energy_always(hardware_choice, hardware_details, time_hours) ==
  energy_charge(
    Div(Mul(hardware_details.power_watts, time_hours), FromInt(1000)))

\* lines 60-65
energy(hardware_choice, hardware_details, time_hours) ==
  IF hardware_choice # "Cloud VM"
  THEN energy_charge(
         Div(Mul(hardware_details.power_watts, time_hours), FromInt(1000)))
  ELSE [energy_kwh |-> Zero, energy_cost |-> Zero]

\* the call ended by an exception
Raised(x, hardware_details) ==
  [raised |-> x, time_seconds |-> NaN, time_hours |-> NaN, total_cost |-> NaN,
   entropy |-> NaN, total_guesses |-> NaN, energy_kwh |-> NaN,
   hashes_per_second |-> NaN, compute_cost |-> NaN, energy_cost |-> NaN,
   hardware_details |-> hardware_details]

\* no call made yet
NoResult == Raised("nocall", HW(Zero, Zero, Zero))

\* lines 67-68: the returned tuple, with the locals computed on the way
returned(entropy, total_guesses, rate, time_seconds, time_hours, compute_cost, en, after) ==
  [raised |-> "none", time_seconds |-> time_seconds, time_hours |-> time_hours,
   total_cost |-> Add(compute_cost, en.energy_cost), entropy |-> entropy,
   total_guesses |-> total_guesses, energy_kwh |-> en.energy_kwh,
   hashes_per_second |-> rate, compute_cost |-> compute_cost,
   energy_cost |-> en.energy_cost, hardware_details |-> after]

\* lines 58-65
costs(entropy, total_guesses, rate, time_seconds, time_hours, hardware_choice, hardware_details) ==
  returned(entropy, total_guesses, rate, time_seconds, time_hours,
           Mul(time_hours, hardware_details.cost_per_hour),
           energy(hardware_choice, hardware_details, time_hours),
           details_after(hardware_details))

\* line 56
hours(entropy, total_guesses, rate, time_seconds, hardware_choice, hardware_details) ==
  costs(entropy, total_guesses, rate, time_seconds,
        Div(time_seconds, FromInt(3600)), hardware_choice, hardware_details)

\* lines 51-55
time(entropy, g, rate, hardware_choice, hardware_details) ==
  IF g.raised # "none" THEN Raised(g.raised, hardware_details)
  ELSE IF rate.k = "fin" /\ rate.n = 0
       THEN Raised("ZeroDivisionError", details_after(hardware_details))
  ELSE hours(entropy, g.value, rate, Div(g.value, rate), hardware_choice,
             hardware_details)

\* line 49
guessed(entropy, hardware_choice, hardware_details, method) ==
  time(entropy, estimate_guesses(entropy, method),
       hashes_per_second(hardware_details), hardware_choice, hardware_details)

estimate_cracking_time_and_cost(password, hardware_choice, hardware_details, method) ==
  guessed(calculate_entropy(password), hardware_choice, hardware_details,
          method)

(***************************************************************************)
(* format_time, lines 70-83.                                               *)
(***************************************************************************)
\* lines 80-83
format_days(days) ==
  IF LessInt(days, 365) THEN Fmt2f(days) \o " days"
  ELSE Fmt2f(Div(days, FromInt(365))) \o " years"

\* lines 77-79
format_hours(hrs) ==
  IF LessInt(hrs, 24) THEN Fmt2f(hrs) \o " hours"
  ELSE format_days(Div(hrs, FromInt(24)))

\* lines 74-76
format_minutes(minutes) ==
  IF LessInt(minutes, 60) THEN Fmt2f(minutes) \o " minutes"
  ELSE format_hours(Div(minutes, FromInt(60)))

\* slip: "<=" for "<" at the first threshold
format_time_inclusive(seconds) ==
  IF LessInt(seconds, 60) \/ seconds = FromInt(60)
  THEN Fmt2f(seconds) \o " seconds"
  ELSE format_minutes(Div(seconds, FromInt(60)))

format_time(seconds) ==
  IF LessInt(seconds, 60) THEN Fmt2f(seconds) \o " seconds"
  ELSE format_minutes(Div(seconds, FromInt(60)))

(***************************************************************************)
(* Inputs.                                                                 *)
(***************************************************************************)
\* one character of each kind: the four classes, two ASCII characters of no
\* class (tilde, space) and a lowercase letter outside ASCII
Chars == {"a", "Z", "7", "!", "~", " ", "U+00E9"}
\* long runs: 217 letters stay below the 1024 bits of entropy that 218 exceed
Runs == {<<c, 1>> : c \in Chars} \cup {<<"a", 217>>, <<" ", 217>>}
Passwords == UNION {[1..k -> Runs] : k \in 0..MaxRuns}

UIMethods == <<"Brute Force", "Dictionary Attack", "Hybrid Attack">>
Methods == {UIMethods[i] : i \in 1..Len(UIMethods)} \cup {"Rainbow Table"}

HardwareChoices == {"GPU", "Cloud VM"}
Profiles ==
  { gpu_options["NVIDIA GTX 1080 Ti"], cloud_vm_options["AWS p3.2xlarge"],
    HW(Zero, FromInt(5), FromInt(2)), HW(FromInt(-3), FromInt(300), One),
    HW(Fin(1, 1, -10, 0), Zero, Zero),
    HW(Fin(1, 1, -10, 0), FromInt(250), Dec(5, -1)) }

EntropySamples ==
  { Zero, Fin(1, 2, 0, 0), One, Fin(3, 2, 0, 0), FromInt(2), FromInt(10),
    FromInt(100), Fin(2047, 2, 0, 0), FromInt(1024), FromInt(2000) }

SecondsSamples ==
  { Zero, FromInt(30), Fin(5999, 100, 0, 0), FromInt(60), FromInt(90),
    FromInt(3599), FromInt(3600), FromInt(7200), FromInt(86399),
    FromInt(86400), FromInt(172800), FromInt(31535999), FromInt(31536000),
    FromInt(31536001), Fin(1, 1, 1000, 0), Inf(1), NaN }

\* st.number_input of lines 119-121: speed >= 1.0, power >= 0.0, cost >= 0.0
CustomSpecs ==
  { HW(Dec(1, 9), FromInt(300), One), HW(One, Zero, Zero) }

\* lines 102-128: the specs the sidebar resolves for a category
SpecsOf(category) ==
  CASE category = "GPU" -> {gpu_options[h] : h \in DOMAIN gpu_options}
    [] category = "ASIC" -> {asic_options[h] : h \in DOMAIN asic_options}
    [] category = "Cloud VM" ->
         {cloud_vm_options[h] : h \in DOMAIN cloud_vm_options}
    [] category = "Custom Rig" -> CustomSpecs

Categories == {"GPU", "ASIC", "Cloud VM", "Custom Rig"}

(***************************************************************************)
(* State.                                                                  *)
(***************************************************************************)
VARIABLES
  password,                 \* the password argument / text input
  method,                   \* the method argument / radio
  hardware_category,        \* hardware_choice / selectbox
  selected_hardware_specs,  \* hardware_details
  entropy,                  \* return of calculate_entropy, called directly
  seconds,                  \* argument of format_time, called directly
  pc,                       \* position of the script run, or the last call
  button,                   \* st.button's value in the current script run
  warning,                  \* the "Please enter a password" warning is shown
  result,                   \* tuple returned by the main call
  guesses,                  \* return of a direct estimate_guesses call
  formatted_time,           \* return of format_time
  times,                    \* the comparison chart's list
  exception,                \* exception that ended the script run
  trace                     \* core calls of the current script run, in order

vars == << password, method, hardware_category, selected_hardware_specs,
           entropy, seconds, pc, button, warning, result, guesses,
           formatted_time, times, exception, trace >>

inputs == << password, method, hardware_category, selected_hardware_specs >>
direct == << entropy, seconds, guesses >>

NoGuesses == Raise("nocall")

(***************************************************************************)
(* The page script, lines 92-188.  Every widget change reruns the script   *)
(* with the button unpressed, which clears the results area.               *)
(***************************************************************************)
ClearOutputs ==
  /\ result' = NoResult
  /\ formatted_time' = ""
  /\ times' = << >>
  /\ exception' = "none"
  /\ trace' = << >>
  /\ entropy' = Zero
  /\ seconds' = Zero
  /\ guesses' = NoGuesses

Rerun ==
  /\ pc' = "idle"
  /\ button' = FALSE
  /\ warning' = FALSE
  /\ ClearOutputs

Init ==
  /\ password = << >>
  /\ method = "Brute Force"
  /\ hardware_category = "GPU"
  /\ selected_hardware_specs = gpu_options["NVIDIA GTX 1080 Ti"]
  /\ entropy = Zero
  /\ seconds = Zero
  /\ guesses = NoGuesses
  /\ pc = "idle"
  /\ button = FALSE
  /\ warning = FALSE
  /\ result = NoResult
  /\ formatted_time = ""
  /\ times = << >>
  /\ exception = "none"
  /\ trace = << >>

Running == pc \in {"main", "format", "compare"}

\* line 96: the text input grows by a run of one character
TypeRun(r) ==
  /\ ~Running
  /\ Len(password) < MaxRuns
  /\ password' = Append(password, r)
  /\ Rerun
  /\ UNCHANGED << method, hardware_category, selected_hardware_specs >>

\* line 96: the text input is emptied
ClearPassword ==
  /\ ~Running
  /\ password # << >>
  /\ password' = << >>
  /\ Rerun
  /\ UNCHANGED << method, hardware_category, selected_hardware_specs >>

\* line 98
SelectMethod(m) ==
  /\ ~Running
  /\ method' = m
  /\ Rerun
  /\ UNCHANGED << password, hardware_category, selected_hardware_specs >>

\* lines 100-128
SelectHardware(category, specs) ==
  /\ ~Running
  /\ hardware_category' = category
  /\ selected_hardware_specs' = specs
  /\ Rerun
  /\ UNCHANGED << password, method >>

\* lines 133-135: where a pressed button takes the run
\* slip: the emptiness test is missing
ButtonBranch_unchecked(pw) == "main"

ButtonBranch(pw) == IF IsEmpty(pw) THEN "warning" ELSE "main"

\* lines 132-140
PressEstimate ==
  /\ ~Running
  /\ button' = TRUE
  /\ ClearOutputs
  /\ IF ButtonBranch(password) = "warning"
     THEN /\ warning' = TRUE
          /\ pc' = "idle"
     ELSE /\ warning' = FALSE
          /\ pc' = "main"
  /\ UNCHANGED inputs

Call(fn, m) == [fn |-> fn, password |-> password, method |-> m]

\* lines 142-144, r the call's outcome
MainReturn(r) ==
  /\ trace' = Append(trace, Call("main", method))
  /\ selected_hardware_specs' = r.hardware_details
  /\ IF r.raised # "none"
     THEN /\ exception' = r.raised
          /\ pc' = "error"
          /\ UNCHANGED result
     ELSE /\ result' = r
          /\ pc' = "format"
          /\ UNCHANGED exception
  /\ UNCHANGED << password, method, hardware_category, direct, button, warning,
                  formatted_time, times >>

MainCall ==
  /\ pc = "main"
  /\ MainReturn(estimate_cracking_time_and_cost(
                  password, hardware_category, selected_hardware_specs, method))

\* line 146
FormatTime ==
  /\ pc = "format"
  /\ formatted_time' = format_time(result.time_seconds)
  /\ trace' = Append(trace, Call("format_time", method))
  /\ pc' = "compare"
  /\ UNCHANGED << inputs, direct, button, warning, result, times, exception >>

\* lines 176-180, one iteration for method m with outcome r; the chart
\* follows the third
CompareReturn(m, r) ==
  /\ trace' = Append(trace, Call("compare", m))
  /\ selected_hardware_specs' = r.hardware_details
  /\ IF r.raised # "none"
     THEN /\ exception' = r.raised
          /\ pc' = "error"
          /\ UNCHANGED times
     ELSE /\ times' = Append(times, Div(r.time_seconds, FromInt(3600)))
          /\ pc' = IF Len(times) + 1 = Len(UIMethods) THEN "done"
                   ELSE "compare"
          /\ UNCHANGED exception
  /\ UNCHANGED << password, method, hardware_category, direct, button, warning,
                  result, formatted_time >>

CompareCall ==
  /\ pc = "compare"
  /\ CompareReturn(UIMethods[Len(times) + 1],
                   estimate_cracking_time_and_cost(
                     password, hardware_category, selected_hardware_specs,
                     UIMethods[Len(times) + 1]))

Next ==
  \/ \E r \in Runs : TypeRun(r)
  \/ ClearPassword
  \/ \E i \in 1..Len(UIMethods) : SelectMethod(UIMethods[i])
  \/ \E c \in Categories : \E h \in SpecsOf(c) : SelectHardware(c, h)
  \/ PressEstimate
  \/ MainCall
  \/ FormatTime
  \/ CompareCall

Spec == Init /\ [][Next]_vars

(***************************************************************************)
(* The core functions called directly, on arguments the page cannot        *)
(* produce as well (another method name, a hash rate <= 0 or below 1).     *)
(* The arguments are set as on the page; pc names the function called      *)
(* last.                                                                   *)
(***************************************************************************)
Called(fn) ==
  /\ pc' = fn
  /\ UNCHANGED << button, warning, times, exception, trace >>

DefaultInputs ==
  /\ password = << >>
  /\ hardware_category = "GPU"
  /\ selected_hardware_specs = gpu_options["NVIDIA GTX 1080 Ti"]

CallCalculateEntropy ==
  /\ pc = "idle"
  /\ entropy' = calculate_entropy(password)
  /\ Called("calculate_entropy")
  /\ UNCHANGED << inputs, seconds, guesses, result, formatted_time >>

\* on the entropy just computed
CallEstimateGuesses ==
  /\ pc = "calculate_entropy"
  /\ guesses' = estimate_guesses(entropy, method)
  /\ Called("estimate_guesses")
  /\ UNCHANGED << inputs, entropy, seconds, result, formatted_time >>

\* on an entropy value given directly
CallEstimateGuessesOn(e) ==
  /\ pc = "idle"
  /\ DefaultInputs
  /\ entropy' = e
  /\ guesses' = estimate_guesses(e, method)
  /\ Called("estimate_guesses")
  /\ UNCHANGED << inputs, seconds, result, formatted_time >>

EstimateReturn(r) ==
  /\ result' = r
  /\ selected_hardware_specs' = r.hardware_details
  /\ Called("estimate_cracking_time_and_cost")
  /\ UNCHANGED << password, method, hardware_category, direct, formatted_time >>

CallEstimate ==
  /\ pc = "idle"
  /\ EstimateReturn(estimate_cracking_time_and_cost(
                      password, hardware_category, selected_hardware_specs,
                      method))

\* on the duration just returned
CallFormatTime ==
  /\ pc = "estimate_cracking_time_and_cost"
  /\ result.raised = "none"
  /\ seconds' = result.time_seconds
  /\ formatted_time' = format_time(result.time_seconds)
  /\ Called("format_time")
  /\ UNCHANGED << inputs, entropy, guesses, result >>

\* on a duration given directly
CallFormatTimeOn(s) ==
  /\ pc = "idle"
  /\ DefaultInputs
  /\ method = "Brute Force"
  /\ seconds' = s
  /\ formatted_time' = format_time(s)
  /\ Called("format_time")
  /\ UNCHANGED << inputs, entropy, guesses, result >>

\* the arguments are set before the call
CoreNext ==
  \/ \E r \in Runs : pc = "idle" /\ TypeRun(r)
  \/ pc = "idle" /\ ClearPassword
  \/ \E m \in Methods : pc = "idle" /\ SelectMethod(m)
  \/ \E c \in HardwareChoices, h \in Profiles :
       pc = "idle" /\ SelectHardware(c, h)
  \/ CallCalculateEntropy
  \/ CallEstimateGuesses
  \/ \E e \in EntropySamples : CallEstimateGuessesOn(e)
  \/ CallEstimate
  \/ CallFormatTime
  \/ \E s \in SecondsSamples : CallFormatTimeOn(s)

CoreSpec == Init /\ [][CoreNext]_vars

(***************************************************************************)
(* Properties.                                                             *)
(***************************************************************************)
Returned == pc = "estimate_cracking_time_and_cost" /\ result.raised = "none"

Neg(a) == Raw(a.k, -a.n, a.d, a.e, a.f)
Leq(a, b) == NonNeg(Add(b, Neg(a)))

\* C1: estimate_cracking_time_and_cost never raises; a guess count too
\* large to represent goes on as an infinite or very large value, and
\* format_time of an infinite duration is a string in years.
C1_NeverRaises ==
  /\ pc = "estimate_cracking_time_and_cost" => result.raised = "none"
  /\ pc = "estimate_guesses" => guesses.raised = "none"
  /\ (pc = "format_time" /\ seconds = Inf(1)) => formatted_time = "inf years"

\* the 32 punctuation characters of ASCII, which the weight 32 counts: the
\* listed ones, the tilde and the backquote (named by its code point)
Punctuation == SymbolSet \cup {"U+0060", "~"}
ClaimedClasses == AsciiLower \cup AsciiUpper \cup AsciiDigit \cup Punctuation
Has(class, pw) == \E i \in 1..Len(pw) : pw[i][1] \in class
ClaimedA(pw) ==
    (IF Has(AsciiLower, pw) THEN 26 ELSE 0)
  + (IF Has(AsciiUpper, pw) THEN 26 ELSE 0)
  + (IF Has(AsciiDigit, pw) THEN 10 ELSE 0)
  + (IF Has(Punctuation, pw) THEN 32 ELSE 0)
ClaimedEntropy(pw) ==
  IF ClaimedA(pw) = 0 THEN Zero
  ELSE Mul(log2(ClaimedA(pw)), FromInt(len(pw)))
OnlyOf(class, pw) == \A i \in 1..Len(pw) : pw[i][1] \in class
SameClasses(p, q) ==
  \A class \in {AsciiLower, AsciiUpper, AsciiDigit, Punctuation} :
    Has(class, p) <=> Has(class, q)

C3_BruteForceFloor ==
  (pc = "estimate_guesses" /\ method = "Brute Force" /\ NonNeg(entropy)) =>
    /\ guesses.raised = "none"
    /\ ~LessInt(guesses.value, 1)
    /\ entropy = Zero => guesses.value = One

SameButEntropy(r, q) ==
  /\ q.raised = r.raised
  /\ q.total_guesses = r.total_guesses
  /\ q.time_seconds = r.time_seconds
  /\ q.time_hours = r.time_hours
  /\ q.energy_kwh = r.energy_kwh
  /\ q.total_cost = r.total_cost

\* C4: Dictionary Attack always takes 100,000,000 guesses and Hybrid Attack
\* 10,000,000,000, whatever the entropy; with either method every password
\* gets, on the same hardware, the total_guesses, time_seconds, time_hours,
\* energy_kwh and total_cost of every other password.
C4_ConstantGuesses ==
  /\ (pc = "estimate_guesses" /\ method = "Dictionary Attack") =>
       guesses = Ok(FromInt(100000000))
  /\ (pc = "estimate_guesses" /\ method = "Hybrid Attack") =>
       guesses = Ok(Mul(FromInt(100000), FromInt(100000)))
  /\ (pc = "estimate_cracking_time_and_cost"
        /\ method \in {"Dictionary Attack", "Hybrid Attack"}) =>
       /\ result.raised = "none"
       /\ result.total_guesses =
            IF method = "Dictionary Attack" THEN FromInt(100000000)
            ELSE Mul(FromInt(100000), FromInt(100000))
       /\ \A q \in {pw \in Passwords : Len(pw) <= 1} :
            SameButEntropy(result,
              estimate_cracking_time_and_cost(
                q, hardware_category, selected_hardware_specs, method))

C4_Witness ==
  /\ Returned
  /\ method = "Dictionary Attack"
  /\ len(password) > 217
  /\ result.entropy # Zero

\* C5: the call replaces a hash rate <= 0 by 1 before dividing, so that the
\* divisor is > 0 and no division by zero happens; time_seconds is
\* total_guesses / rate and time_hours is time_seconds / 3600; the caller's
\* hardware_details is left as it was.
C5_RateNormalized ==
  [][(pc = "idle" /\ pc' = "estimate_cracking_time_and_cost") =>
       /\ result'.raised # "ZeroDivisionError"
       /\ selected_hardware_specs' = selected_hardware_specs
       /\ result'.raised = "none" =>
            /\ result'.hashes_per_second =
                 IF LeqZero(selected_hardware_specs.speed_hps) THEN One
                 ELSE selected_hardware_specs.speed_hps
            /\ IsFin(result'.hashes_per_second)
            /\ result'.hashes_per_second.n > 0
            /\ result'.time_seconds =
                 Div(result'.total_guesses, result'.hashes_per_second)
            /\ result'.time_hours = Div(result'.time_seconds, FromInt(3600))
     ]_vars

C5_Witness ==
  /\ Returned
  /\ selected_hardware_specs.speed_hps = Zero
  /\ result.hashes_per_second = One
  /\ result.time_seconds = result.total_guesses

\* C6: with hardware_choice "Cloud VM" the call returns energy_kwh = 0 and
\* adds an energy cost of 0: total_cost is time_hours * cost_per_hour,
\* whatever power_watts is.
C6_CloudNoEnergy ==
  (Returned /\ hardware_category = "Cloud VM") =>
    /\ result.energy_kwh = Zero
    /\ result.energy_cost = Zero
    /\ result.total_cost =
         Mul(result.time_hours, selected_hardware_specs.cost_per_hour)

C6_Witness ==
  /\ Returned
  /\ hardware_category = "Cloud VM"
  /\ selected_hardware_specs.power_watts = FromInt(250)
  /\ result.total_cost # Zero
  /\ result.energy_kwh = Zero

\* C7: with any other hardware_choice energy_kwh is power_watts * time_hours
\* / 1000 and total_cost is time_hours * cost_per_hour + energy_kwh * 0.10;
\* when power_watts and cost_per_hour are not negative, no field of the
\* result is negative.
C7_EnergyAndNonNegative ==
  (Returned /\ hardware_category # "Cloud VM") =>
    /\ result.energy_kwh =
         Div(Mul(selected_hardware_specs.power_watts, result.time_hours),
             FromInt(1000))
    /\ result.total_cost =
         Add(Mul(result.time_hours, selected_hardware_specs.cost_per_hour),
             Mul(result.energy_kwh, Dec(1, -1)))
    /\ (NonNeg(selected_hardware_specs.power_watts)
          /\ NonNeg(selected_hardware_specs.cost_per_hour)) =>
         /\ NonNeg(result.time_seconds)
         /\ NonNeg(result.time_hours)
         /\ NonNeg(result.total_cost)
         /\ NonNeg(result.entropy)
         /\ NonNeg(result.total_guesses)
         /\ NonNeg(result.energy_kwh)

\* the unit and value the thresholds on the raw seconds select
ByThreshold(s) ==
  IF LessInt(s, 60) THEN Fmt2f(s) \o " seconds"
  ELSE IF LessInt(s, 3600) THEN Fmt2f(Div(s, FromInt(60))) \o " minutes"
  ELSE IF LessInt(s, 86400)
       THEN Fmt2f(Div(Div(s, FromInt(60)), FromInt(60))) \o " hours"
  ELSE IF LessInt(s, 31536000)
       THEN Fmt2f(Div(Div(Div(s, FromInt(60)), FromInt(60)), FromInt(24)))
              \o " days"
  ELSE Fmt2f(Div(Div(Div(Div(s, FromInt(60)), FromInt(60)), FromInt(24)),
                 FromInt(365))) \o " years"

Examples ==
     FromInt(30) :> "30.00 seconds" @@ FromInt(90) :> "1.50 minutes"
  @@ FromInt(7200) :> "2.00 hours" @@ FromInt(172800) :> "2.00 days"
  @@ FromInt(31536001) :> "1.00 years" @@ FromInt(60) :> "1.00 minutes"
  @@ FromInt(3600) :> "1.00 hours" @@ FromInt(86400) :> "1.00 days"
  @@ FromInt(31536000) :> "1.00 years"

\* C8: format_time of a non-negative duration s is in seconds when s < 60,
\* minutes when s < 3600, hours when s < 86400, days when s < 31,536,000 and
\* years otherwise, the value divided by 60, 60, 24, 365 in turn; 30, 90,
\* 7200, 172800, 31536001 give "30.00 seconds", "1.50 minutes", "2.00
\* hours", "2.00 days", "1.00 years" and 60, 3600, 86400, 31536000 fall in
\* the larger unit.
C8_FormatTime ==
  (pc = "format_time" /\ NonNeg(seconds)) =>
    /\ formatted_time = ByThreshold(seconds)
    /\ seconds \in DOMAIN Examples => formatted_time = Examples[seconds]

C8_Witness ==
  /\ pc = "format_time"
  /\ seconds = FromInt(31536000)
  /\ formatted_time = "1.00 years"

Front(pw) == SubSeq(pw, 1, Len(pw) - 1)

\* C9: a character of none of the four classes adds to the length and never
\* to the alphabet size: appended to any password it leaves A as it was,
\* and a password of such characters only has A = 0 and entropy 0.
C9_UnrecognizedAddsNothing ==
  (pc = "calculate_entropy" /\ password # << >>
     /\ password[Len(password)][1] \notin ClaimedClasses) =>
    /\ char_sets(password) = char_sets(Front(password))
    /\ len(password) = len(Front(password)) + password[Len(password)][2]
    /\ (\A i \in 1..Len(password) : password[i][1] \notin ClaimedClasses) =>
         (char_sets(password) = 0 /\ entropy = Zero)

\* C10: a press of the button with an empty password ends in the warning
\* and no call of the core; no call of estimate_cracking_time_and_cost, main
\* or comparison, has an empty password; format_time and the comparison
\* calls come after the main call.
C10_EmptyRejected ==
  /\ (button /\ IsEmpty(password)) =>
       (warning /\ trace = << >> /\ pc = "idle")
  /\ warning => (IsEmpty(password) /\ button)
  /\ \A i \in 1..Len(trace) :
       /\ ~IsEmpty(trace[i].password)
       /\ trace[i].fn = "main" <=> i = 1
       /\ trace[i].fn = "format_time" => i = 2
       /\ trace[i].fn = "compare" => i > 2
  /\ (formatted_time # "" \/ times # << >>) =>
       (trace # << >> /\ trace[1].fn = "main")

C10_Witness ==
  /\ button
  /\ warning
  /\ password = << >>
  /\ trace = << >>

=============================================================================
